---- MODULE Spec2Model ----
(***************************************************************************)
(* A model of gossie's struct <-> row mapping engine (mapping.go): the     *)
(* sparse and compact mappings, the composite column-name codec they use,  *)
(* and the streaming decode of a RowProvider's columns.                    *)
(*                                                                         *)
(* Byte strings ([]byte, and Go strings by their UTF-8 bytes) are          *)
(* sequences of bytes 0..255; to keep a string that overflows a 2-byte     *)
(* length small, n equal bytes b in a row may be written as the one        *)
(* element 256 * (n - 1) + b (a byte b is the case n = 1); only BigBytes   *)
(* and its parts are written so.  A Go struct value is a record            *)
(* [type |-> the struct type's name, val |-> a function from field names   *)
(* to values].                                                             *)
(***************************************************************************)
EXTENDS Integers, Sequences, FiniteSets, TLC

VARIABLES
    m,       \* the result of NewMapping: [err, mapping]
    recs,    \* the records passed to Map so far, in order
    row,     \* the Row returned by the last Map call (or NoRow)
    stream,  \* the columns of all mapped records, concatenated in call order
    prov,    \* the RowProvider handed to Unmap (or NoProvider)
    call,    \* the Unmap call in progress or last returned
    hist,    \* summaries of the Unmap calls that returned on this provider
    codec,   \* a run of the composite codec on its own: [pc, cs, composite, unpacked]
    api,     \* the last call of a function of the package: its name, input and result
    par      \* the callers that use one Mapping at the same time

vars == <<m, recs, row, stream, prov, call, hist, codec, api, par>>

----------------------------------------------------------------------------
(* Bounds of the model. *)

\* records mapped into one provider stream
MaxRecs == 2
\* columns of a hand-built (not Map-produced) provider stream
MaxCols == 2
\* Unmap calls made on one provider
MaxCalls == 3
\* components of a composite packed and unpacked on its own
MaxComps == 3
\* the largest position passed to MarshalComponent
MaxPosition == 3

----------------------------------------------------------------------------
(* Byte strings. *)

\* "Id", "Kind", "Name", "Age", "Val", "Zzz", "A", "B" as UTF-8
bId   == <<73, 100>>
bKind == <<75, 105, 110, 100>>
bName == <<78, 97, 109, 101>>
bAge  == <<65, 103, 101>>
bVal  == <<86, 97, 108>>
bZzz  == <<90, 122, 122>>
bA    == <<65>>
bB    == <<66>>

\* the number of values of a uint16
U16 == 65536

\* the number of bytes an element of a byte string stands for, and the byte
ESize(e) == e \div 256 + 1
EByte(e) == e % 256

\* n bytes b in a row, as one element
Run(b, n) == 256 * (n - 1) + b

\* len(s), in bytes
RECURSIVE BLen(_)
BLen(s) == IF s = <<>> THEN 0 ELSE ESize(Head(s)) + BLen(Tail(s))

\* s[i-1] in Go: byte number i of s, counted from 1
RECURSIVE BAt(_, _)
BAt(s, i) ==
    IF i <= ESize(Head(s)) THEN EByte(Head(s))
    ELSE BAt(Tail(s), i - ESize(Head(s)))

\* s[k:] in Go: s without its first k bytes (k <= len(s))
RECURSIVE BDrop(_, _)
BDrop(s, k) ==
    IF k = 0 \/ s = <<>> THEN s
    ELSE IF ESize(Head(s)) <= k THEN BDrop(Tail(s), k - ESize(Head(s)))
    ELSE <<Run(EByte(Head(s)), ESize(Head(s)) - k)>> \o Tail(s)

\* s[:k] in Go: the first k bytes of s (k <= len(s))
RECURSIVE BTake(_, _)
BTake(s, k) ==
    IF k = 0 \/ s = <<>> THEN <<>>
    ELSE IF ESize(Head(s)) <= k
         THEN <<Head(s)>> \o BTake(Tail(s), k - ESize(Head(s)))
    ELSE <<Run(EByte(Head(s)), k)>>

\* a byte string one byte longer than a 2-byte length prefix can state:
\* 65536 bytes 255
BigBytes == <<Run(255, U16)>>

----------------------------------------------------------------------------
(* The composite codec (packComposite, unpackComposite) and the type codec *)
(* (Marshal, Unmarshal) live outside mapping.go; they are modelled from    *)
(* their documented layout.                                                *)

\* the end-of-component marker written after every component
eocEquals == 0

\* a 2-byte big-endian length prefix: the length as a uint16
Uint16Bytes(n) == <<(n % U16) \div 256, n % 256>>

\* one component: 2-byte big-endian length, the raw bytes, the marker
packComposite(component, eoc) ==
    Uint16Bytes(BLen(component)) \o component \o <<eoc>>

\* [ok, comps]: the components of a composite, read left to right; ok is
\* FALSE, and nothing is returned, when the bytes end inside a component
\* (the decode aborts)
RECURSIVE unpackComposite(_)
unpackComposite(composite) ==
    IF BLen(composite) = 0 THEN [ok |-> TRUE, comps |-> <<>>]
    ELSE IF BLen(composite) < 2 THEN [ok |-> FALSE, comps |-> <<>>]
    ELSE LET l == BAt(composite, 1) * 256 + BAt(composite, 2)
         IN  IF 3 + l > BLen(composite) THEN [ok |-> FALSE, comps |-> <<>>]
             ELSE LET rest == unpackComposite(BDrop(composite, 3 + l))
                  IN  IF ~rest.ok THEN [ok |-> FALSE, comps |-> <<>>]
                      ELSE [ok    |-> TRUE,
                            comps |-> <<BTake(BDrop(composite, 2), l)>>
                                      \o rest.comps]

\* big-endian bytes of n in exactly k bytes
RECURSIVE BigEndian(_, _)
BigEndian(n, k) ==
    IF k = 0 THEN <<>> ELSE BigEndian(n \div 256, k - 1) \o <<n % 256>>

\* the number a big-endian byte string states
RECURSIVE FromBigEndian(_)
FromBigEndian(b) ==
    IF Len(b) = 0 THEN 0
    ELSE FromBigEndian(SubSeq(b, 1, Len(b) - 1)) * 256 + b[Len(b)]

\* Marshal(value, typeDesc): a string is its UTF-8 bytes, a bool one byte,
\* an int64 eight big-endian bytes
Marshal(value, ctype) ==
    CASE ctype = "UTF8Type"    -> value
      [] ctype = "BooleanType" -> IF value THEN <<1>> ELSE <<0>>
      [] ctype = "LongType"    -> BigEndian(value, 8)

\* Unmarshal(b, typeDesc, &value): [err, val]
Unmarshal(b, ctype) ==
    CASE ctype = "UTF8Type"    -> [err |-> "nil", val |-> b]
      [] ctype = "BooleanType" ->
            IF BLen(b) # 1 THEN [err |-> "ErrUnmarshal", val |-> FALSE]
            ELSE [err |-> "nil", val |-> BAt(b, 1) # 0]
      [] ctype = "LongType"    ->
            IF BLen(b) # 8 THEN [err |-> "ErrUnmarshal", val |-> 0]
            ELSE [err |-> "nil", val |-> FromBigEndian(b)]

\* the zero value of a Go field of the type
ZeroValue(ctype) ==
    CASE ctype = "UTF8Type"    -> <<>>
      [] ctype = "BooleanType" -> FALSE
      [] ctype = "LongType"    -> 0

----------------------------------------------------------------------------
(* The field registry (validateAndInspectStruct and the field's marshal /  *)
(* unmarshal entry points), consumed by mapping.go as a read-only          *)
(* descriptor.                                                             *)

Field(name, cname, ctype) == [name |-> name, cname |-> cname, ctype |-> ctype]

\* the set of elements of a sequence
Range(s) == {s[i] : i \in DOMAIN s}

\* si: goFields by Go name, cassandraFields by store-facing name
inspectStruct(type) ==
    [rtype           |-> type.name,
     orderedFields   |-> type.fields,
     goFields        |-> [n \in {f.name : f \in Range(type.fields)} |->
                            CHOOSE f \in Range(type.fields) : f.name = n],
     cassandraFields |-> [c \in {f.cname : f \in Range(type.fields)} |->
                            CHOOSE f \in Range(type.fields) : f.cname = c],
     globalTags      |-> type.tags]

\* f.marshalName()
marshalName(f) == Marshal(f.cname, "UTF8Type")

\* f.marshalValue(v)
marshalValue(f, v) == Marshal(v.val[f.name], f.ctype)

\* f.unmarshalValue(b, v): [err, v] with the field set when err is nil
unmarshalValue(f, b, v) ==
    LET u == Unmarshal(b, f.ctype)
    IN  IF u.err # "nil" THEN [err |-> u.err, v |-> v]
        ELSE [err |-> "nil",
              v   |-> [v EXCEPT !.val = [@ EXCEPT ![f.name] = u.val]]]

\* a freshly allocated struct of the type: every field at its zero value
FreshRecord(type) ==
    [type |-> type.name,
     val  |-> [n \in {f.name : f \in Range(type.fields)} |->
                 ZeroValue((CHOOSE f \in Range(type.fields) : f.name = n).ctype)]]

----------------------------------------------------------------------------
(* The tagged struct types of the model.  tags holds the struct's global   *)
(* tags, each a string.                                                    *)

fId   == Field("Id",   bId,   "UTF8Type")
fKind == Field("Kind", bKind, "UTF8Type")
fName == Field("Name", bName, "UTF8Type")
fAge  == Field("Age",  bAge,  "LongType")
fVal  == Field("Val",  bVal,  "UTF8Type")
fA    == Field("A",    bA,    "BooleanType")
fB    == Field("B",    bB,    "UTF8Type")

\* the spec's scenario: sparse, one component field
User == [name |-> "User", fields |-> <<fId, fKind, fName, fAge>>,
         tags |-> [cf |-> "users", key |-> "Id", cols |-> "Kind",
                   mapping |-> "sparse"]]
\* sparse by default, no component fields
Plain == [name |-> "Plain", fields |-> <<fId, fName, fAge>>,
          tags |-> [cf |-> "plain", key |-> "Id"]]
\* sparse, nothing but the key and a component field
Link == [name |-> "Link", fields |-> <<fId, fKind>>,
         tags |-> [cf |-> "links", key |-> "Id", cols |-> "Kind"]]
\* sparse, nothing but the key
Solo == [name |-> "Solo", fields |-> <<fId>>,
         tags |-> [cf |-> "solos", key |-> "Id"]]
\* sparse, two component fields declared in another order than the fields
Pair == [name |-> "Pair", fields |-> <<fA, fId, fName, fB>>,
         tags |-> [cf |-> "pairs", key |-> "Id", cols |-> "B,A"]]
\* sparse, a component field holding a long string
Blob == [name |-> "Blob", fields |-> <<fId, fKind, fVal>>,
         tags |-> [cf |-> "blobs", key |-> "Id", cols |-> "Kind"]]
\* compact, one component field and a value field
Event == [name |-> "Event", fields |-> <<fId, fKind, fVal>>,
          tags |-> [cf |-> "events", key |-> "Id", cols |-> "Kind",
                    value |-> "Val", mapping |-> "compact"]]
\* compact, no component fields
Single == [name |-> "Single", fields |-> <<fId, fVal>>,
           tags |-> [cf |-> "singles", key |-> "Id", value |-> "Val",
                     mapping |-> "compact"]]
\* compact, no value field
Flag == [name |-> "Flag", fields |-> <<fId, fKind>>,
         tags |-> [cf |-> "flags", key |-> "Id", cols |-> "Kind",
                   mapping |-> "compact"]]

StructTypes == {User, Plain, Link, Solo, Pair, Blob, Event, Single, Flag}

\* reflect: the struct type of a value
TypeOf(v) == CHOOSE t \in StructTypes : t.name = v.type

\* validateAndInspectStruct(source): the inspection of the value's own type
validateAndInspectStruct(source) == inspectStruct(TypeOf(source))

\* the values a field of the type can hold in the model
FieldValues(type, f) ==
    CASE f.ctype = "BooleanType" -> BOOLEAN
      [] f.ctype = "LongType"    -> {30}
      [] f.ctype = "UTF8Type"    ->
            IF type.name = "Blob"
            THEN (IF f.name = "Kind" THEN {<<112>>, BigBytes} ELSE {<<117>>})
            ELSE {<<>>, <<97>>}

\* the value lists of the first k fields of the type, in field order
RECURSIVE ValueLists(_, _)
ValueLists(type, k) ==
    IF k = 0 THEN {<<>>}
    ELSE {Append(t, x) : t \in ValueLists(type, k - 1),
                         x \in FieldValues(type, type.fields[k])}

\* every struct value of the type
Records(type) ==
    {[type |-> type.name,
      val  |-> [n \in {f.name : f \in Range(type.fields)} |->
                  t[CHOOSE i \in DOMAIN type.fields : type.fields[i].name = n]]] :
        t \in ValueLists(type, Len(type.fields))}

----------------------------------------------------------------------------
(* NewMapping and the mapping descriptor.  A sparseMapping is              *)
(* [kind, si, cf, key, components, componentsMap]; a compactMapping is the *)
(* same with its value field (value is "" for a sparse mapping, which has  *)
(* no such field).                                                         *)

\* strings.Split(cols, ","): the names between the commas; a string without
\* a comma (the empty string too) is a single name
Split(cols) ==
    CASE cols = "B,A"       -> <<"B", "A">>
      [] cols = "Kind,Nope" -> <<"Kind", "Nope">>
      [] OTHER              -> <<cols>>

newSparseMapping(si, cf, keyField, componentFields) ==
    [kind          |-> "sparse",
     si            |-> si,
     cf            |-> cf,
     key           |-> keyField,
     components    |-> componentFields,
     componentsMap |-> Range(componentFields),
     value         |-> ""]

newCompactMapping(si, cf, keyField, valueField, componentFields) ==
    [newSparseMapping(si, cf, keyField, componentFields)
        EXCEPT !.kind = "compact", !.value = valueField]

NoMapping == [kind |-> "none"]

\* a NewMapping whose switch on the mapping tag falls back to sparse
NewMappingLenient(source) ==
    LET si      == inspectStruct(source)
        tags    == si.globalTags
        has(t)  == t \in DOMAIN tags
        declared(n) == n \in DOMAIN si.goFields
        colsS   == IF has("cols") THEN Split(tags["cols"]) ELSE <<>>
        value   == IF has("value") THEN tags["value"] ELSE ""
        mapping == IF has("mapping") THEN tags["mapping"] ELSE "sparse"
        fail(e) == [err |-> e, mapping |-> NoMapping]
    IN  IF ~has("cf") THEN fail("ErrNoCf")
        ELSE IF ~has("key") THEN fail("ErrNoKey")
        ELSE IF ~declared(tags["key"]) THEN fail("ErrKeyField")
        ELSE IF \E i \in DOMAIN colsS : ~declared(colsS[i])
             THEN fail("ErrCompositeField")
        ELSE IF has("value") /\ ~declared(value) THEN fail("ErrValueField")
        ELSE IF mapping = "compact"
             THEN [err |-> "nil",
                   mapping |-> newCompactMapping(si, tags["cf"], tags["key"],
                                                 value, colsS)]
        ELSE [err |-> "nil",
              mapping |-> newSparseMapping(si, tags["cf"], tags["key"], colsS)]

\* [err, mapping]
NewMapping(source) ==
    LET si      == inspectStruct(source)
        tags    == si.globalTags
        has(t)  == t \in DOMAIN tags
        declared(n) == n \in DOMAIN si.goFields
        colsS   == IF has("cols") THEN Split(tags["cols"]) ELSE <<>>
        value   == IF has("value") THEN tags["value"] ELSE ""
        mapping == IF has("mapping") THEN tags["mapping"] ELSE "sparse"
        fail(e) == [err |-> e, mapping |-> NoMapping]
    IN  IF ~has("cf") THEN fail("ErrNoCf")
        ELSE IF ~has("key") THEN fail("ErrNoKey")
        ELSE IF ~declared(tags["key"]) THEN fail("ErrKeyField")
        ELSE IF \E i \in DOMAIN colsS : ~declared(colsS[i])
             THEN fail("ErrCompositeField")
        ELSE IF has("value") /\ ~declared(value) THEN fail("ErrValueField")
        ELSE IF mapping = "sparse"
             THEN [err |-> "nil",
                   mapping |-> newSparseMapping(si, tags["cf"], tags["key"], colsS)]
        ELSE IF mapping = "compact"
             THEN [err |-> "nil",
                   mapping |-> newCompactMapping(si, tags["cf"], tags["key"],
                                                 value, colsS)]
        ELSE fail("ErrMappingType")

----------------------------------------------------------------------------
(* Map. *)

Column(name, value) == [Name |-> name, Value |-> value]

NoRow == [err |-> "none", Key |-> <<>>, Columns |-> <<>>]

\* the marshalled values of the component fields m.components[i..], as the
\* loop of startMap reads them: [err, bs]
RECURSIVE marshalComponents(_, _, _, _)
marshalComponents(mp, si, v, i) ==
    IF i > Len(mp.components) THEN [err |-> "nil", bs |-> <<>>]
    ELSE IF mp.components[i] \in DOMAIN si.goFields
         THEN LET b    == marshalValue(si.goFields[mp.components[i]], v)
                  rest == marshalComponents(mp, si, v, i + 1)
              IN  [err |-> rest.err, bs |-> <<b>> \o rest.bs]
         ELSE [err |-> "ErrComponentFieldNotFound", bs |-> <<>>]

\* a startMap that assigns each packed component instead of appending it
appendPackedAssigned(composite, bs) ==
    IF bs = <<>> THEN composite ELSE packComposite(bs[Len(bs)], eocEquals)

\* composite = append(composite, packComposite(b, eocEquals)...) for each b
RECURSIVE appendPacked(_, _)
appendPacked(composite, bs) ==
    IF bs = <<>> THEN composite
    ELSE appendPacked(composite \o packComposite(Head(bs), eocEquals), Tail(bs))

\* "prepare composite, if needed" of startMap: [err, composite]
packComponents(mp, si, v) ==
    LET mc == marshalComponents(mp, si, v, 1)
    IN  IF mc.err # "nil" THEN [err |-> mc.err, composite |-> <<>>]
        ELSE [err |-> "nil", composite |-> appendPacked(<<>>, mc.bs)]

\* [err, Key, composite]: the row key and the packed component prefix
startMap(mp, source) ==
    LET si == validateAndInspectStruct(source)
    IN  IF mp.key \in DOMAIN si.goFields
        THEN LET c == packComponents(mp, si, source)
             IN  [err       |-> c.err,
                  Key       |-> marshalValue(si.goFields[mp.key], source),
                  composite |-> c.composite]
        ELSE [err |-> "ErrKeyFieldNotFound", Key |-> <<>>, composite |-> <<>>]

\* a Map that names every column by the bare field name
sparseColumnBare(f, v, composite) ==
    Column(marshalName(f), marshalValue(f, v))

\* the column Map emits for field f
sparseColumn(f, v, composite) ==
    LET columnName == marshalName(f)
        cp == IF BLen(composite) > 0
              THEN composite \o packComposite(columnName, eocEquals)
              ELSE columnName
    IN  Column(cp, marshalValue(f, v))

\* the "add columns" loop of sparseMapping.Map from field i on
RECURSIVE sparseColumns(_, _, _, _, _)
sparseColumns(mp, si, v, composite, i) ==
    IF i > Len(si.orderedFields) THEN <<>>
    ELSE LET f == si.orderedFields[i]
             rest == sparseColumns(mp, si, v, composite, i + 1)
         IN  IF f.name = mp.key THEN rest
             ELSE IF f.name \in mp.componentsMap THEN rest
             ELSE <<sparseColumn(f, v, composite)>> \o rest

\* sparseMapping.Map: [err, Key, Columns]
sparseMap(mp, source) ==
    LET s == startMap(mp, source)
    IN  IF s.err # "nil" THEN [err |-> s.err, Key |-> <<>>, Columns |-> <<>>]
        ELSE [err     |-> "nil",
              Key     |-> s.Key,
              Columns |-> sparseColumns(mp, validateAndInspectStruct(source),
                                        source, s.composite, 1)]

\* a compact Map that ends the column name with the value field's name, the
\* way sparse Map does
compactMapNamed(mp, source) ==
    LET s  == startMap(mp, source)
        si == validateAndInspectStruct(source)
    IN  IF s.err # "nil" THEN [err |-> s.err, Key |-> <<>>, Columns |-> <<>>]
        ELSE IF mp.value \in DOMAIN si.goFields
             THEN [err     |-> "nil",
                   Key     |-> s.Key,
                   Columns |-> <<sparseColumn(si.goFields[mp.value], source,
                                              s.composite)>>]
             ELSE [err     |-> "nil",
                   Key     |-> s.Key,
                   Columns |-> <<Column(s.composite, <<>>)>>]

\* compactMapping.Map: [err, Key, Columns]
compactMap(mp, source) ==
    LET s  == startMap(mp, source)
        si == validateAndInspectStruct(source)
    IN  IF s.err # "nil" THEN [err |-> s.err, Key |-> <<>>, Columns |-> <<>>]
        ELSE IF mp.value \in DOMAIN si.goFields
             THEN [err     |-> "nil",
                   Key     |-> s.Key,
                   Columns |-> <<Column(s.composite,
                                        marshalValue(si.goFields[mp.value], source))>>]
             ELSE [err     |-> "nil",
                   Key     |-> s.Key,
                   Columns |-> <<Column(s.composite, <<>>)>>]

\* Mapping.Map, by the mapping's dynamic type
Map(mp, source) ==
    IF mp.kind = "compact" THEN compactMap(mp, source) ELSE sparseMap(mp, source)

----------------------------------------------------------------------------
(* The RowProvider: a cursor pos over the columns cols of one row.  end is *)
(* what NextColumn returns once the columns are used up: one of the three  *)
(* exhaustion signals or another error; keyErr is the error of Key().      *)

NoProvider == [key |-> <<>>, cols |-> <<>>, pos |-> 0, end |-> "none",
               keyErr |-> "none"]

Exhaustion == {"Done", "EndBeforeLimit", "EndAtLimit"}

\* Key(): [err, key]
Key(p) == [err |-> p.keyErr, key |-> p.key]

\* NextColumn(): [err, column, p]; a returned column advances the pointer
NextColumn(p) ==
    IF p.pos < Len(p.cols)
    THEN [err |-> "nil", column |-> p.cols[p.pos + 1],
          p |-> [p EXCEPT !.pos = @ + 1]]
    ELSE [err |-> p.end, column |-> Column(<<>>, <<>>), p |-> p]

\* Rewind(): moves the column pointer back one position
Rewind(p) == [p EXCEPT !.pos = IF @ > 0 THEN @ - 1 ELSE 0]

----------------------------------------------------------------------------
(* Unmap.  An Unmap call is the record                                     *)
(*   pc    "idle" before any call, "loop" between two iterations of the    *)
(*         column loop, "done" once the call has returned                  *)
(*   v     the destination struct                                          *)
(*   compositeFieldsAreSet, previousComponents   the loop's locals         *)
(*   ret   the returned error ("nil" for success)                          *)
(*   ops   the provider operations of the call, in order                   *)
(*   start the provider's pointer when the call began                      *)
(*   kept  the stream positions of the columns the loop decoded and kept   *)

IdleCall == [pc |-> "idle", v |-> [type |-> "", val |-> <<>>],
             compositeFieldsAreSet |-> FALSE, previousComponents |-> <<>>,
             ret |-> "none", ops |-> <<>>, start |-> 0, kept |-> {}]

\* return err from the call
Return(c, err) == [c EXCEPT !.pc = "done", !.ret = err]

\* startUnmap: a fresh call on destination; [c, p]
startUnmap(mp, destination, p) ==
    LET si == validateAndInspectStruct(destination)
        c0 == [IdleCall EXCEPT !.pc = "loop", !.v = destination, !.start = p.pos]
    IN  IF mp.key \in DOMAIN si.goFields
        THEN LET k  == Key(p)
                 c1 == [c0 EXCEPT !.ops = <<"Key">>]
             IN  IF k.err # "nil" THEN [c |-> Return(c1, k.err), p |-> p]
                 ELSE LET u == unmarshalValue(si.goFields[mp.key], k.key, destination)
                      IN  IF u.err # "nil"
                          THEN [c |-> Return(c1, u.err), p |-> p]
                          ELSE [c |-> [c1 EXCEPT !.v = u.v], p |-> p]
        ELSE [c |-> Return(c0, "ErrKeyFieldNotFound"), p |-> p]

\* the loop of unmapComponents from position i on: [err, v]; the fields
\* written before a failure stay written
RECURSIVE unmapComponents(_, _, _, _, _)
unmapComponents(mp, v, si, components, i) ==
    IF i > Len(mp.components) THEN [err |-> "nil", v |-> v]
    ELSE IF mp.components[i] \in DOMAIN si.goFields
         THEN LET u == unmarshalValue(si.goFields[mp.components[i]],
                                      components[i], v)
              IN  IF u.err # "nil" THEN [err |-> u.err, v |-> v]
                  ELSE unmapComponents(mp, u.v, si, components, i + 1)
         ELSE [err |-> "ErrComponentFieldNotFound", v |-> v]

\* an extractComponents that only rejects a name with too few components
extractComponentsAtLeast(mp, column, bias) ==
    LET un == IF Len(mp.components) > 0
              THEN unpackComposite(column.Name)
              ELSE [ok |-> TRUE, comps |-> <<column.Name>>]
    IN  IF ~un.ok THEN [err |-> "panic", components |-> <<>>]
        ELSE IF Len(un.comps) < Len(mp.components) + bias
             THEN [err |-> "ErrShape", components |-> un.comps]
             ELSE [err |-> "nil", components |-> un.comps]

\* [err, components]: the components of a column name; "panic" when the
\* name is no composite
extractComponents(mp, column, bias) ==
    LET un == IF Len(mp.components) > 0
              THEN unpackComposite(column.Name)
              ELSE [ok |-> TRUE, comps |-> <<column.Name>>]
    IN  IF ~un.ok THEN [err |-> "panic", components |-> <<>>]
        ELSE IF Len(un.comps) # Len(mp.components) + bias
             THEN [err |-> "ErrShape", components |-> un.comps]
             ELSE [err |-> "nil", components |-> un.comps]

\* an isNewComponents that compares the trailing field name too
isNewComponentsWholeName(prev, next, bias) ==
    IF Len(prev) # Len(next) THEN TRUE
    ELSE \E i \in 1..Len(prev) :
            \/ BLen(prev[i]) # BLen(next[i])
            \/ \E j \in 1..BLen(prev[i]) : BAt(prev[i], j) # BAt(next[i], j)

\* an isNewComponents that compares the components' lengths, not their bytes
isNewComponentsByLength(prev, next, bias) ==
    IF Len(prev) # Len(next) THEN TRUE
    ELSE \E i \in 1..(Len(prev) - bias) : BLen(prev[i]) # BLen(next[i])

\* whether the first len(prev) - bias components of prev and next differ
isNewComponents(prev, next, bias) ==
    IF Len(prev) # Len(next) THEN TRUE
    ELSE \E i \in 1..(Len(prev) - bias) :
            \/ BLen(prev[i]) # BLen(next[i])
            \/ \E j \in 1..BLen(prev[i]) : BAt(prev[i], j) # BAt(next[i], j)

\* a lookup that fails on a name that matches no declared field
lookupFieldStrict(c, si, column, components, p) ==
    LET n == Unmarshal(components[Len(components)], "UTF8Type")
    IN  IF n.err # "nil" THEN [c |-> Return(c, "ErrFieldName"), p |-> p]
        ELSE LET kept == [c EXCEPT !.previousComponents = components,
                                   !.kept = @ \cup {p.pos}]
             IN  IF n.val \in DOMAIN si.cassandraFields
                 THEN LET u == unmarshalValue(si.cassandraFields[n.val],
                                              column.Value, c.v)
                      IN  IF u.err # "nil"
                          THEN [c |-> Return(c, "ErrColumnValue"), p |-> p]
                          ELSE [c |-> [kept EXCEPT !.v = u.v], p |-> p]
                 ELSE [c |-> Return(c, "ErrFieldNotFound"), p |-> p]

\* "lookup field by name" to the end of the loop body: [c, p]
lookupField(c, si, column, components, p) ==
    LET n == Unmarshal(components[Len(components)], "UTF8Type")
    IN  IF n.err # "nil" THEN [c |-> Return(c, "ErrFieldName"), p |-> p]
        ELSE LET kept == [c EXCEPT !.previousComponents = components,
                                   !.kept = @ \cup {p.pos}]
             IN  IF n.val \in DOMAIN si.cassandraFields
                 THEN LET u == unmarshalValue(si.cassandraFields[n.val],
                                              column.Value, c.v)
                      IN  IF u.err # "nil"
                          THEN [c |-> Return(c, "ErrColumnValue"), p |-> p]
                          ELSE [c |-> [kept EXCEPT !.v = u.v], p |-> p]
                 ELSE [c |-> kept, p |-> p]

\* an exhaustion chain that wraps an unexpected provider error in an error
\* of its own, the way the unmarshal errors are wrapped
sparseEndWrapped(compositeFieldsAreSet, err) ==
    IF err = "Done" THEN "Done"
    ELSE IF err = "EndBeforeLimit"
         THEN (IF compositeFieldsAreSet THEN "nil" ELSE "Done")
    ELSE IF err = "EndAtLimit" THEN "Done"
    ELSE "ErrNextColumn"

\* an exhaustion chain that takes Done, after a column was consumed, for a
\* normal end of row
sparseEndDoneAsBefore(compositeFieldsAreSet, err) ==
    IF err \in {"Done", "EndBeforeLimit"}
    THEN (IF compositeFieldsAreSet THEN "nil" ELSE "Done")
    ELSE IF err = "EndAtLimit" THEN "Done"
    ELSE err

\* an exhaustion chain that takes EndBeforeLimit for a normal end of row
\* whether or not a column was consumed
sparseEndAlwaysBreak(compositeFieldsAreSet, err) ==
    IF err = "Done" THEN "Done"
    ELSE IF err = "EndBeforeLimit" THEN "nil"
    ELSE IF err = "EndAtLimit" THEN "Done"
    ELSE err

\* an exhaustion chain that handles EndAtLimit the way it handles
\* EndBeforeLimit
sparseEndLimitAsBefore(compositeFieldsAreSet, err) ==
    IF err = "Done" THEN "Done"
    ELSE IF err \in {"EndBeforeLimit", "EndAtLimit"}
         THEN (IF compositeFieldsAreSet THEN "nil" ELSE "Done")
    ELSE err

\* what sparseMapping.Unmap returns when NextColumn returned the error err
\* (a break out of the loop returns nil)
sparseEnd(compositeFieldsAreSet, err) ==
    IF err = "Done" THEN "Done"
    ELSE IF err = "EndBeforeLimit"
         THEN (IF compositeFieldsAreSet THEN "nil" ELSE "Done")
    ELSE IF err = "EndAtLimit" THEN "Done"
    ELSE err

\* an iteration that un-consumes the column of the next group and the one
\* before it
sparseIterationRewindTwice(mp, c, p) ==
    LET si == validateAndInspectStruct(c.v)
        nc == NextColumn(p)
        c1 == [c EXCEPT !.ops = Append(@, "NextColumn")]
    IN  IF nc.err # "nil"
        THEN [c |-> Return(c1, sparseEnd(c.compositeFieldsAreSet, nc.err)),
              p |-> nc.p]
        ELSE LET ex == extractComponents(mp, nc.column, 1)
             IN  IF ex.err # "nil" THEN [c |-> Return(c1, ex.err), p |-> nc.p]
                 ELSE IF ~c.compositeFieldsAreSet
                      THEN LET uc == unmapComponents(mp, c.v, si, ex.components, 1)
                           IN  IF uc.err # "nil"
                               THEN [c |-> Return([c1 EXCEPT !.v = uc.v], uc.err),
                                     p |-> nc.p]
                               ELSE lookupField(
                                        [c1 EXCEPT !.v = uc.v,
                                                   !.compositeFieldsAreSet = TRUE],
                                        si, nc.column, ex.components, nc.p)
                      ELSE IF isNewComponents(c.previousComponents, ex.components, 1)
                           THEN [c |-> Return([c1 EXCEPT !.ops = @ \o <<"Rewind", "Rewind">>],
                                              "nil"),
                                 p |-> Rewind(Rewind(nc.p))]
                           ELSE lookupField(c1, si, nc.column, ex.components, nc.p)

\* an iteration that compares the first column of a call, too, with the
\* components of the column before it (there is none)
sparseIterationCompareFirst(mp, c, p) ==
    LET si == validateAndInspectStruct(c.v)
        nc == NextColumn(p)
        c1 == [c EXCEPT !.ops = Append(@, "NextColumn")]
    IN  IF nc.err # "nil"
        THEN [c |-> Return(c1, sparseEnd(c.compositeFieldsAreSet, nc.err)),
              p |-> nc.p]
        ELSE LET ex == extractComponents(mp, nc.column, 1)
             IN  IF ex.err # "nil" THEN [c |-> Return(c1, ex.err), p |-> nc.p]
                 ELSE IF ~c.compositeFieldsAreSet
                      THEN LET uc == unmapComponents(mp, c.v, si, ex.components, 1)
                           IN  IF uc.err # "nil"
                               THEN [c |-> Return([c1 EXCEPT !.v = uc.v], uc.err),
                                     p |-> nc.p]
                               ELSE IF isNewComponents(c.previousComponents,
                                                       ex.components, 1)
                                    THEN [c |-> Return([c1 EXCEPT
                                                  !.v = uc.v,
                                                  !.compositeFieldsAreSet = TRUE,
                                                  !.ops = Append(@, "Rewind")],
                                                "nil"),
                                          p |-> Rewind(nc.p)]
                               ELSE lookupField(
                                        [c1 EXCEPT !.v = uc.v,
                                                   !.compositeFieldsAreSet = TRUE],
                                        si, nc.column, ex.components, nc.p)
                      ELSE IF isNewComponents(c.previousComponents, ex.components, 1)
                           THEN [c |-> Return([c1 EXCEPT !.ops = Append(@, "Rewind")],
                                              "nil"),
                                 p |-> Rewind(nc.p)]
                           ELSE lookupField(c1, si, nc.column, ex.components, nc.p)

\* one iteration of the loop of sparseMapping.Unmap: [c, p]
sparseIteration(mp, c, p) ==
    LET si == validateAndInspectStruct(c.v)
        nc == NextColumn(p)
        c1 == [c EXCEPT !.ops = Append(@, "NextColumn")]
    IN  IF nc.err # "nil"
        THEN [c |-> Return(c1, sparseEnd(c.compositeFieldsAreSet, nc.err)),
              p |-> nc.p]
        ELSE LET ex == extractComponents(mp, nc.column, 1)
             IN  IF ex.err # "nil" THEN [c |-> Return(c1, ex.err), p |-> nc.p]
                 ELSE IF ~c.compositeFieldsAreSet
                      THEN LET uc == unmapComponents(mp, c.v, si, ex.components, 1)
                           IN  IF uc.err # "nil"
                               THEN [c |-> Return([c1 EXCEPT !.v = uc.v], uc.err),
                                     p |-> nc.p]
                               ELSE lookupField(
                                        [c1 EXCEPT !.v = uc.v,
                                                   !.compositeFieldsAreSet = TRUE],
                                        si, nc.column, ex.components, nc.p)
                      ELSE IF isNewComponents(c.previousComponents, ex.components, 1)
                           THEN [c |-> Return([c1 EXCEPT !.ops = Append(@, "Rewind")],
                                              "nil"),
                                 p |-> Rewind(nc.p)]
                           ELSE lookupField(c1, si, nc.column, ex.components, nc.p)

\* a compact Unmap that runs the column loop of sparse Unmap
compactReadLoop(mp, c, p) == sparseIteration(mp, c, p)

\* compactMapping.Unmap after startUnmap: [c, p]
compactRead(mp, c, p) ==
    LET si == validateAndInspectStruct(c.v)
        nc == NextColumn(p)
        c1 == [c EXCEPT !.ops = Append(@, "NextColumn")]
    IN  IF nc.err = "Done" THEN [c |-> Return(c1, "Done"), p |-> nc.p]
        ELSE IF nc.err = "EndBeforeLimit" THEN [c |-> Return(c1, "Done"), p |-> nc.p]
        ELSE IF nc.err = "EndAtLimit" THEN [c |-> Return(c1, "Done"), p |-> nc.p]
        ELSE IF nc.err # "nil" THEN [c |-> Return(c1, nc.err), p |-> nc.p]
        ELSE LET ex == extractComponents(mp, nc.column, 0)
             IN  IF ex.err # "nil" THEN [c |-> Return(c1, ex.err), p |-> nc.p]
                 ELSE LET uc == unmapComponents(mp, c.v, si, ex.components, 1)
                          c2 == [c1 EXCEPT !.v = uc.v]
                      IN  IF uc.err # "nil"
                          THEN [c |-> Return(c2, uc.err), p |-> nc.p]
                          ELSE IF mp.value \in DOMAIN si.goFields
                               THEN LET u == unmarshalValue(si.goFields[mp.value],
                                                            nc.column.Value, c2.v)
                                    IN  IF u.err # "nil"
                                        THEN [c |-> Return(c2, "ErrCompactValue"),
                                              p |-> nc.p]
                                        ELSE [c |-> Return([c2 EXCEPT !.v = u.v,
                                                              !.kept = {nc.p.pos}],
                                                           "nil"),
                                              p |-> nc.p]
                               ELSE [c |-> Return([c2 EXCEPT !.kept = {nc.p.pos}],
                                                  "nil"),
                                     p |-> nc.p]

\* the next step of a call that has not returned, by the mapping's type
unmapStep(mp, c, p) ==
    IF mp.kind = "compact" THEN compactRead(mp, c, p) ELSE sparseIteration(mp, c, p)

\* a call run from c to its return: [c, p]
RECURSIVE unmapRun(_, _, _)
unmapRun(mp, c, p) ==
    IF c.pc # "loop" THEN [c |-> c, p |-> p]
    ELSE LET s == unmapStep(mp, c, p) IN unmapRun(mp, s.c, s.p)

\* Mapping.Unmap(destination, provider) as one call: [c, p]
Unmap(mp, destination, p) ==
    LET s == startUnmap(mp, destination, p) IN unmapRun(mp, s.c, s.p)

----------------------------------------------------------------------------
(* The columns a provider may serve that no Map call produced.             *)

pack1(a)       == packComposite(a, eocEquals)
pack2(a, b)    == pack1(a) \o pack1(b)
pack3(a, b, c) == pack2(a, b) \o pack1(c)

RawColumns ==
    { Column(pack2(<<97>>, bName), <<98>>),
      Column(pack2(<<97>>, bAge), <<98>>),
      Column(pack2(<<97>>, bZzz), <<98>>),
      Column(pack2(<<>>, bName), <<98>>),
      Column(pack1(<<97>>), <<98>>),
      Column(pack3(<<97>>, <<1>>, bName), <<98>>),
      Column(bName, <<98>>),
      Column(bZzz, <<98>>) }

\* the sequences of at most n raw columns
RECURSIVE RawStreams(_)
RawStreams(n) ==
    IF n = 0 THEN {<<>>}
    ELSE LET shorter == RawStreams(n - 1)
         IN  shorter \cup {Append(t, x) : t \in shorter, x \in RawColumns}

EndErrors == Exhaustion \cup {"ErrTransport"}

----------------------------------------------------------------------------
(* The state machine: a mapping is built, records are mapped into a row,   *)
(* a provider serves the row's columns (or columns of its own), and Unmap  *)
(* is called on it until a call does not succeed.                          *)

IdleCodec == [pc |-> "idle", cs |-> <<>>, composite |-> <<>>,
              unpacked |-> [ok |-> TRUE, comps |-> <<>>]]

\* no function of the package called yet, no concurrent callers
IdleApi == [op |-> "none"]

NoCallers == <<>>

Init ==
    /\ m \in {NewMapping(t) : t \in StructTypes}
    /\ recs = <<>>
    /\ row = NoRow
    /\ stream = <<>>
    /\ prov = NoProvider
    /\ call = IdleCall
    /\ hist = <<>>
    /\ codec = IdleCodec
    /\ api = IdleApi
    /\ par = NoCallers

\* the struct type the mapping was built from
MappedType == CHOOSE t \in StructTypes : t.name = m.mapping.si.rtype

\* the value of the mapping's key field in record r
KeyOf(r) == r.val[m.mapping.key]

\* Map(r) on a record of the mapped type; the records of one row share a key
MapRecord ==
    /\ m.err = "nil"
    /\ prov = NoProvider
    /\ Len(recs) < MaxRecs
    /\ \E r \in Records(MappedType) :
          /\ recs # <<>> => KeyOf(r) = KeyOf(recs[1])
          /\ row' = Map(m.mapping, r)
          /\ recs' = Append(recs, r)
          /\ stream' = stream \o row'.Columns
    /\ UNCHANGED <<m, prov, call, hist, codec, api, par>>

\* a provider over the columns of the mapped records
ServeMapped ==
    /\ recs # <<>>
    /\ prov = NoProvider
    /\ \E e \in EndErrors :
          prov' = [key |-> row.Key, cols |-> stream, pos |-> 0, end |-> e,
                   keyErr |-> "nil"]
    /\ UNCHANGED <<m, recs, row, stream, call, hist, codec, api, par>>

\* a provider over columns written by someone else, or one whose Key() fails
ServeRaw ==
    /\ m.err = "nil"
    /\ recs = <<>>
    /\ prov = NoProvider
    /\ \E cols \in RawStreams(MaxCols), e \in EndErrors, ke \in {"nil", "ErrKey"} :
          /\ ke = "ErrKey" => Len(cols) <= 1
          /\ prov' = [key |-> <<107>>, cols |-> cols, pos |-> 0, end |-> e,
                      keyErr |-> ke]
    /\ UNCHANGED <<m, recs, row, stream, call, hist, codec, api, par>>

\* what hist keeps of a returned call
Summary(c, p) ==
    [ret |-> c.ret, v |-> c.v, start |-> c.start, pos |-> p.pos, ops |-> c.ops,
     kept |-> c.kept]

\* the caller calls Unmap on a fresh struct: the first call, or the next one
\* after a call that succeeded
UnmapBegin ==
    /\ prov # NoProvider
    /\ \/ call.pc = "idle"
       \/ call.pc = "done" /\ call.ret = "nil" /\ Len(hist) < MaxCalls
    /\ LET s == startUnmap(m.mapping, FreshRecord(MappedType), prov)
       IN  /\ call' = s.c
           /\ prov' = s.p
           /\ hist' = IF s.c.pc = "done" THEN Append(hist, Summary(s.c, s.p))
                      ELSE hist
    /\ UNCHANGED <<m, recs, row, stream, codec, api, par>>

\* the call reads the next column
UnmapStep ==
    /\ call.pc = "loop"
    /\ LET s == unmapStep(m.mapping, call, prov)
       IN  /\ call' = s.c
           /\ prov' = s.p
           /\ hist' = IF s.c.pc = "done" THEN Append(hist, Summary(s.c, s.p))
                      ELSE hist
    /\ UNCHANGED <<m, recs, row, stream, codec, api, par>>

Next == MapRecord \/ ServeMapped \/ ServeRaw \/ UnmapBegin \/ UnmapStep

Spec == Init /\ [][Next]_vars

\* an Unmap call is a function running to its return: a call that has begun
\* goes on reading.  This is WF_vars(UnmapStep) with ENABLED <<UnmapStep>>_vars
\* written out: a call in its loop can always take its next step, and the
\* step changes call.
SpecLive ==
    /\ Init
    /\ [][Next]_vars
    /\ \/ []<>(call.pc # "loop")
       \/ []<><<UnmapStep>>_vars

----------------------------------------------------------------------------
(* The composite codec on its own: a sequence of byte strings is packed as *)
(* startMap packs the component values, and the result unpacked.           *)

CodecBytes == {<<>>, <<0>>, <<0, 0, 0>>, <<1, 2>>, BigBytes}

\* the sequences of at most n byte strings of CodecBytes
RECURSIVE CodecInputs(_)
CodecInputs(n) ==
    IF n = 0 THEN {<<>>}
    ELSE LET shorter == CodecInputs(n - 1)
         IN  shorter \cup {Append(t, x) : t \in shorter, x \in CodecBytes}

CodecInit ==
    /\ m = [err |-> "none", mapping |-> NoMapping]
    /\ recs = <<>>
    /\ row = NoRow
    /\ stream = <<>>
    /\ prov = NoProvider
    /\ call = IdleCall
    /\ hist = <<>>
    /\ api = IdleApi
    /\ par = NoCallers
    /\ \E cs \in CodecInputs(MaxComps) : codec = [IdleCodec EXCEPT !.pc = "input", !.cs = cs]

PackUnpack ==
    /\ codec.pc = "input"
    /\ LET composite == appendPacked(<<>>, codec.cs)
       IN  codec' = [codec EXCEPT !.pc = "done",
                                  !.composite = composite,
                                  !.unpacked = unpackComposite(composite)]
    /\ UNCHANGED <<m, recs, row, stream, prov, call, hist, api, par>>

CodecNext == PackUnpack

SpecCodec == CodecInit /\ [][CodecNext]_vars

----------------------------------------------------------------------------
(* NewMapping on its own: a struct type with any combination of present,   *)
(* absent, well-formed and ill-formed tags is passed to NewMapping.        *)

TagNames == {"cf", "key", "cols", "value", "mapping"}

\* the values a tag takes in the model; "-" stands for a tag that is absent
TagChoices ==
    [cf      |-> {"-", "things"},
     key     |-> {"-", "Id", "Nope"},
     cols    |-> {"-", "", "Kind", "B,A", "Kind,Nope"},
     value   |-> {"-", "Val", "Nope"},
     mapping |-> {"-", "sparse", "compact", "bogus"}]

\* the struct type with the tags chosen in o
Tagged(o) ==
    [name   |-> "Tagged",
     fields |-> <<fId, fKind, fVal, fA, fB>>,
     tags   |-> [n \in {x \in TagNames : o[x] # "-"} |-> o[n]]]

TaggedTypes ==
    {Tagged([cf |-> a, key |-> b, cols |-> c, value |-> d, mapping |-> e]) :
        a \in TagChoices.cf, b \in TagChoices.key, c \in TagChoices.cols,
        d \in TagChoices.value, e \in TagChoices.mapping}

NewMappingInit ==
    /\ m = [err |-> "none", mapping |-> NoMapping]
    /\ recs = <<>>
    /\ row = NoRow
    /\ stream = <<>>
    /\ prov = NoProvider
    /\ call = IdleCall
    /\ hist = <<>>
    /\ codec = IdleCodec
    /\ par = NoCallers
    /\ \E t \in TaggedTypes : api = [op |-> "input", source |-> t]

\* NewMapping(source)
NewMappingCall ==
    /\ api.op = "input"
    /\ m' = NewMapping(api.source)
    /\ api' = [api EXCEPT !.op = "NewMapping"]
    /\ UNCHANGED <<recs, row, stream, prov, call, hist, codec, par>>

NewMappingNext == NewMappingCall

SpecNewMapping == NewMappingInit /\ [][NewMappingNext]_vars

----------------------------------------------------------------------------
(* One Mapping shared by two callers.  Each caller maps a record of its    *)
(* own and decodes the row from a provider of its own, one step at a time; *)
(* the steps of the two interleave, and Cf, MarshalKey and                 *)
(* MarshalComponent are called in between.  The methods have pointer       *)
(* receivers: m is the Mapping as the last call left it.                   *)

\* Cf()
Cf(mp) == mp.cf

\* MarshalKey(key): [err, b]
MarshalKey(mp, key) ==
    LET f == mp.si.goFields[mp.key]
    IN  [err |-> "nil", b |-> Marshal(key, f.ctype)]

\* a MarshalComponent whose range check is off by one
MarshalComponentOffByOne(mp, component, position) ==
    IF position > Len(mp.components) THEN [err |-> "ErrOutOfRange", b |-> <<>>]
    ELSE IF position < 0 \/ position >= Len(mp.components)
         THEN [err |-> "panic", b |-> <<>>]
    ELSE LET f == mp.si.goFields[mp.components[position + 1]]
         IN  [err |-> "nil", b |-> Marshal(component, f.ctype)]

\* MarshalComponent(component, position): [err, b]; position counts from 0,
\* and a negative one indexes m.components out of range
MarshalComponent(mp, component, position) ==
    IF position >= Len(mp.components) THEN [err |-> "ErrOutOfRange", b |-> <<>>]
    ELSE IF position < 0 THEN [err |-> "panic", b |-> <<>>]
    ELSE LET f == mp.si.goFields[mp.components[position + 1]]
         IN  [err |-> "nil", b |-> Marshal(component, f.ctype)]

\* a Map that keeps its composite in the Mapping for the next call
ReceiverWithScratch(mp, method) ==
    IF method = "Map" THEN [mp EXCEPT !.cf = "scratch"] ELSE mp

\* the receiver after a call of the method: Cf, MarshalKey,
\* MarshalComponent, Map and Unmap, and the functions they call, assign to
\* no field of m
Receiver(mp, method) == mp

\* the provider a caller decodes its own row from
ProviderOf(r) ==
    [key |-> r.Key, cols |-> r.Columns, pos |-> 0, end |-> "EndBeforeLimit",
     keyErr |-> "nil"]

Caller(rec) ==
    [pc |-> "start", rec |-> rec, row |-> NoRow, prov |-> NoProvider,
     call |-> IdleCall]

Callers == {1, 2}

\* the records the callers map: every value of the component and value
\* fields, under one key and one name
CallerRecords(type) ==
    {r \in Records(type) :
        \A n \in DOMAIN r.val \cap {"Id", "Name"} : r.val[n] = <<97>>}

SharedInit ==
    /\ recs = <<>>
    /\ row = NoRow
    /\ stream = <<>>
    /\ prov = NoProvider
    /\ call = IdleCall
    /\ hist = <<>>
    /\ codec = IdleCodec
    /\ api = IdleApi
    /\ \E t \in StructTypes :
          /\ m = NewMapping(t)
          /\ \E r1, r2 \in CallerRecords(t) : par = <<Caller(r1), Caller(r2)>>

Others == <<recs, row, stream, prov, call, hist, codec>>

\* caller i calls Map on its record
CallerMap(i) ==
    /\ par[i].pc = "start"
    /\ LET r == Map(m.mapping, par[i].rec)
       IN  par' = [par EXCEPT ![i].row = r,
                              ![i].prov = ProviderOf(r),
                              ![i].pc = "mapped"]
    /\ m' = [m EXCEPT !.mapping = Receiver(@, "Map")]
    /\ UNCHANGED <<api, Others>>

\* caller i calls Unmap on a fresh struct and its provider
CallerUnmapBegin(i) ==
    /\ par[i].pc = "mapped"
    /\ LET s == startUnmap(m.mapping, FreshRecord(TypeOf(par[i].rec)), par[i].prov)
       IN  par' = [par EXCEPT ![i].call = s.c,
                              ![i].prov = s.p,
                              ![i].pc = IF s.c.pc = "done" THEN "done" ELSE "unmap"]
    /\ m' = [m EXCEPT !.mapping = Receiver(@, "Unmap")]
    /\ UNCHANGED <<api, Others>>

\* the Unmap call of caller i reads its next column
CallerUnmapStep(i) ==
    /\ par[i].pc = "unmap"
    /\ LET s == unmapStep(m.mapping, par[i].call, par[i].prov)
       IN  par' = [par EXCEPT ![i].call = s.c,
                              ![i].prov = s.p,
                              ![i].pc = IF s.c.pc = "done" THEN "done" ELSE "unmap"]
    /\ m' = [m EXCEPT !.mapping = Receiver(@, "Unmap")]
    /\ UNCHANGED <<api, Others>>

CfCall ==
    /\ api' = [op |-> "Cf", out |-> Cf(m.mapping)]
    /\ m' = [m EXCEPT !.mapping = Receiver(@, "Cf")]
    /\ UNCHANGED <<par, Others>>

MarshalKeyCall ==
    /\ \E key \in {<<>>, <<97>>} :
          api' = [op |-> "MarshalKey", key |-> key,
                  out |-> MarshalKey(m.mapping, key)]
    /\ m' = [m EXCEPT !.mapping = Receiver(@, "MarshalKey")]
    /\ UNCHANGED <<par, Others>>

\* the component values passed for the position: values of the field's Go
\* type when the position names a component field
ComponentInputs(mp, position) ==
    IF position >= 0 /\ position < Len(mp.components)
    THEN FieldValues(TypeOf(par[1].rec), mp.si.goFields[mp.components[position + 1]])
    ELSE {<<97>>}

MarshalComponentCall ==
    /\ \E position \in -1..MaxPosition :
          \E component \in ComponentInputs(m.mapping, position) :
             api' = [op |-> "MarshalComponent", component |-> component,
                     position |-> position,
                     out |-> MarshalComponent(m.mapping, component, position)]
    /\ m' = [m EXCEPT !.mapping = Receiver(@, "MarshalComponent")]
    /\ UNCHANGED <<par, Others>>

SharedNext ==
    \/ \E i \in Callers : CallerMap(i)
    \/ \E i \in Callers : CallerUnmapBegin(i)
    \/ \E i \in Callers : CallerUnmapStep(i)
    \/ CfCall
    \/ MarshalKeyCall
    \/ MarshalComponentCall

SpecShared == SharedInit /\ [][SharedNext]_vars

----------------------------------------------------------------------------
(* RowToMap on its own.  A scheme is a function from names to the          *)
(* Cassandra type of the Go value the scheme holds under the name          *)
(* (defaultType of its reflect type); a *Row is [nil, Key, Columns]; the   *)
(* result is [err, ret] with ret a function from names to values.          *)

NilRow == [nil |-> TRUE, Key |-> <<>>, Columns |-> <<>>]

RowOf(key, columns) == [nil |-> FALSE, Key |-> key, Columns |-> columns]

\* ret[k] = v
Put(ret, k, v) == [n \in DOMAIN ret \cup {k} |-> IF n = k THEN v ELSE ret[n]]

\* a RowToMap that refuses a column the scheme does not name
RECURSIVE rowToMapStrict(_, _, _, _)
rowToMapStrict(scheme, columns, i, ret) ==
    IF i > Len(columns) THEN [err |-> "nil", ret |-> ret]
    ELSE LET col == columns[i]
         IN  IF col.Name \notin DOMAIN scheme
             THEN [err |-> "ErrNotInScheme", ret |-> <<>>]
             ELSE LET u == Unmarshal(col.Value, scheme[col.Name])
                      k == Unmarshal(col.Name, "UTF8Type")
                  IN  IF u.err # "nil" THEN [err |-> "ErrFieldValue", ret |-> <<>>]
                      ELSE IF k.err # "nil"
                           THEN [err |-> "ErrFieldName", ret |-> <<>>]
                      ELSE rowToMapStrict(scheme, columns, i + 1,
                                          Put(ret, k.val, u.val))

\* the loop of RowToMap from column i on, with ret as filled so far
RECURSIVE rowToMapFrom(_, _, _, _)
rowToMapFrom(scheme, columns, i, ret) ==
    IF i > Len(columns) THEN [err |-> "nil", ret |-> ret]
    ELSE LET col == columns[i]
         IN  IF col.Name \notin DOMAIN scheme
             THEN rowToMapFrom(scheme, columns, i + 1, ret)
             ELSE LET u == Unmarshal(col.Value, scheme[col.Name])
                      k == Unmarshal(col.Name, "UTF8Type")
                  IN  IF u.err # "nil" THEN [err |-> "ErrFieldValue", ret |-> <<>>]
                      ELSE IF k.err # "nil"
                           THEN [err |-> "ErrFieldName", ret |-> <<>>]
                      ELSE rowToMapFrom(scheme, columns, i + 1,
                                        Put(ret, k.val, u.val))

\* RowToMap(scheme, r): [err, ret]
RowToMap(scheme, r) ==
    IF r.nil THEN [err |-> "ErrNilRow", ret |-> <<>>]
    ELSE rowToMapFrom(scheme, r.Columns, 1, <<>>)

\* the schemes of the model: none, a string, a string and an int64, an
\* int64 and a bool
Schemes ==
    { <<>>,
      [n \in {bName} |-> "UTF8Type"],
      [n \in {bName, bAge} |-> IF n = bAge THEN "LongType" ELSE "UTF8Type"],
      [n \in {bAge, bA} |-> IF n = bAge THEN "LongType" ELSE "BooleanType"] }

\* the columns of the model's rows; <<98>> is no int64
SchemeColumns ==
    { Column(bName, <<98>>),
      Column(bAge, BigEndian(30, 8)),
      Column(bAge, <<98>>),
      Column(bA, <<1>>),
      Column(bZzz, <<98>>) }

\* the sequences of at most n columns of SchemeColumns
RECURSIVE SchemeStreams(_)
SchemeStreams(n) ==
    IF n = 0 THEN {<<>>}
    ELSE LET shorter == SchemeStreams(n - 1)
         IN  shorter \cup {Append(t, x) : t \in shorter, x \in SchemeColumns}

SchemeRows == {NilRow} \cup {RowOf(<<107>>, cols) : cols \in SchemeStreams(MaxCols)}

RowToMapInit ==
    /\ m = [err |-> "none", mapping |-> NoMapping]
    /\ recs = <<>>
    /\ row = NoRow
    /\ stream = <<>>
    /\ prov = NoProvider
    /\ call = IdleCall
    /\ hist = <<>>
    /\ codec = IdleCodec
    /\ par = NoCallers
    /\ \E scheme \in Schemes, r \in SchemeRows :
          api = [op |-> "input", scheme |-> scheme, r |-> r,
                 out |-> [err |-> "none", ret |-> <<>>]]

\* RowToMap(scheme, r)
RowToMapCall ==
    /\ api.op = "input"
    /\ api' = [api EXCEPT !.op = "RowToMap", !.out = RowToMap(api.scheme, api.r)]
    /\ UNCHANGED <<m, recs, row, stream, prov, call, hist, codec, par>>

RowToMapNext == RowToMapCall

SpecRowToMap == RowToMapInit /\ [][RowToMapNext]_vars

----------------------------------------------------------------------------
(* Properties.                                                             *)

\* the component values of record r, as Map marshals them
ComponentBytes(r) ==
    [i \in DOMAIN m.mapping.components |->
        Marshal(r.val[m.mapping.components[i]],
                m.mapping.si.goFields[m.mapping.components[i]].ctype)]

\* every component of r fits the 2-byte length prefix of a composite
ComponentsFit(r) ==
    \A i \in DOMAIN m.mapping.components : BLen(ComponentBytes(r)[i]) < U16

\* the provider serves the columns of the mapped records and ends with an
\* exhaustion signal, and n Unmap calls have returned
Decoded(kind, n) ==
    /\ m.err = "nil"
    /\ m.mapping.kind = kind
    /\ recs # <<>>
    /\ prov # NoProvider
    /\ prov.end \in Exhaustion
    /\ Len(hist) >= n

\* C1 as stated: Unmap of the columns of Map(r) into a fresh record gives r,
\* for every sparse mapping and every record r.
C1_SparseRoundTripEveryRecord ==
    (Decoded("sparse", 1) /\ Len(recs) = 1) => hist[1].v = recs[1]

\* C1, amended: for a sparse mapping and a record r whose component values
\* each marshal to fewer than 65536 bytes, and whose Map(r) has at least one
\* column unless the mapping declares no component fields, Unmap of the
\* columns of Map(r) into a fresh record gives a record equal to r.
C1_SparseRoundTrip ==
    (/\ Decoded("sparse", 1)
     /\ Len(recs) = 1
     /\ ComponentsFit(recs[1])
     /\ (stream # <<>> \/ m.mapping.components = <<>>))
    => hist[1].v = recs[1]

\* a User with no field at its zero value has been mapped and decoded
C1_Witness ==
    /\ Decoded("sparse", 1)
    /\ Len(recs) = 1
    /\ m.mapping.si.rtype = "User"
    /\ recs[1].val = [Id |-> <<97>>, Kind |-> <<97>>, Name |-> <<97>>, Age |-> 30]
    /\ hist[1].v = recs[1]

\* the key, component and value fields of the mapping
CompactFields ==
    {m.mapping.key} \cup Range(m.mapping.components) \cup
    (IF m.mapping.value \in DOMAIN m.mapping.si.goFields
     THEN {m.mapping.value} ELSE {})

\* C2 as stated: compact Unmap of the single column of Map(r) into a fresh
\* record gives r's key, component and value fields, for every compact
\* mapping with a value field (also one with no component fields).
C2_CompactRoundTrip ==
    (/\ Decoded("compact", 1)
     /\ Len(recs) = 1
     /\ m.mapping.value \in DOMAIN m.mapping.si.goFields)
    => \A n \in CompactFields : hist[1].v.val[n] = recs[1].val[n]

\* the provider serves the columns of record A then those of record B: same
\* key, component values that differ, at least one column each
GroupingCase ==
    /\ Decoded("sparse", 1)
    /\ Len(recs) = 2
    /\ m.mapping.components # <<>>
    /\ \E i \in DOMAIN m.mapping.components :
          recs[1].val[m.mapping.components[i]] # recs[2].val[m.mapping.components[i]]
    /\ Len(Map(m.mapping, recs[1]).Columns) >= 1
    /\ Len(Map(m.mapping, recs[2]).Columns) >= 1

\* the provider operations of a call that reads n columns and rewinds once
RECURSIVE NextColumns(_)
NextColumns(n) == IF n = 0 THEN <<>> ELSE <<"NextColumn">> \o NextColumns(n - 1)

\* what C3 says of the two calls
GroupsRecovered ==
    LET nA == Len(Map(m.mapping, recs[1]).Columns)
    IN  /\ hist[1].ret = "nil"
        /\ hist[1].v = recs[1]
        /\ hist[1].pos = nA
        /\ prov.cols[nA + 1] = Map(m.mapping, recs[2]).Columns[1]
        /\ hist[1].ops = <<"Key">> \o NextColumns(nA + 1) \o <<"Rewind">>
        /\ Len(hist) >= 2 => (hist[2].start = nA /\ hist[2].v = recs[2])

\* C3 as stated: for every sparse mapping with a component field and every
\* two records A, B of one row with different component values and a column
\* each, the first Unmap succeeds with A and leaves the cursor at B's first
\* column, read and rewound once; the second Unmap decodes B.
C3_GroupingEveryRecord == GroupingCase => GroupsRecovered

\* C3, amended: the same, for records whose component values each marshal to
\* fewer than 65536 bytes.
C3_Grouping ==
    (GroupingCase /\ ComponentsFit(recs[1]) /\ ComponentsFit(recs[2]))
    => GroupsRecovered

\* two Pairs that differ in their second component only were both decoded
C3_Witness ==
    /\ GroupingCase
    /\ m.mapping.si.rtype = "Pair"
    /\ recs[1].val["B"] = recs[2].val["B"]
    /\ Len(hist) >= 2
    /\ hist[2].ret = "nil"
    /\ hist[2].v = recs[2]
    /\ hist[1].v # hist[2].v

\* C4 as stated: unpacking the concatenation of the packed components of any
\* sequence cs of byte strings returns cs.
C4_CodecRoundTripEverySequence ==
    codec.pc = "done" => codec.unpacked = [ok |-> TRUE, comps |-> codec.cs]

\* C4, amended: unpacking the concatenation of the packed components returns
\* cs for every sequence cs of byte strings of fewer than 65536 bytes each
\* (the empty sequence and empty components included).
C4_CodecRoundTrip ==
    (codec.pc = "done" /\ \A i \in DOMAIN codec.cs : BLen(codec.cs[i]) < U16)
    => codec.unpacked = [ok |-> TRUE, comps |-> codec.cs]

\* an empty component, one that reads like a packed component, and another
\* came back
C4_Witness ==
    /\ codec.pc = "done"
    /\ codec.cs = << <<>>, <<0, 0, 0>>, <<1, 2>> >>
    /\ BLen(codec.composite) = 14
    /\ codec.unpacked.comps = codec.cs

\* the call in progress is about to read a column (not the end of the row)
ReadsColumn == call.pc = "loop" /\ prov.pos < Len(prov.cols)

\* the call in progress is about to be told that the columns are used up
ReadsEnd(signal) ==
    call.pc = "loop" /\ prov.pos >= Len(prov.cols) /\ prov.end = signal

NextCol == prov.cols[prov.pos + 1]

Bias == IF m.mapping.kind = "sparse" THEN 1 ELSE 0

\* the column about to be read has a name that decodes, to a number of
\* components other than len(componentFields) + bias
ReadsMismatch ==
    /\ ReadsColumn
    /\ IF m.mapping.components = <<>>
       THEN 1 # Bias
       ELSE /\ unpackComposite(NextCol.Name).ok
            /\ Len(unpackComposite(NextCol.Name).comps)
                 # Len(m.mapping.components) + Bias

\* C5: when a sparse or compact Unmap call reads a column whose name has a
\* component count other than len(componentFields) + bias, the call returns
\* the shape error (not nil, not Done) and the record is left as it was
\* before that column was read.
C5_ShapeMismatch ==
    [][ReadsMismatch =>
         (call'.pc = "done" /\ call'.ret = "ErrShape" /\ call'.v = call.v)]_vars

\* a sparse call decoded a column, then stopped on a misshapen one
C5_Witness ==
    /\ m.err = "nil"
    /\ m.mapping.kind = "sparse"
    /\ call.pc = "done"
    /\ call.ret = "ErrShape"
    /\ call.kept # {}
    /\ call.v # FreshRecord(MappedType)

\* the trailing component of column i of the provider, as a field name
TrailingName(col) ==
    LET comps == extractComponents(m.mapping, col, 1).components
    IN  comps[Len(comps)]

UnknownName(col) == TrailingName(col) \notin DOMAIN m.mapping.si.cassandraFields

\* the columns without column i
Without(cols, i) == SubSeq(cols, 1, i - 1) \o SubSeq(cols, i + 1, Len(cols))

\* the returned call is the call Unmap makes, from where this one began, on
\* the same provider without column i
SameWithout(i) ==
    LET alt == Unmap(m.mapping, FreshRecord(MappedType),
                     [prov EXCEPT !.cols = Without(prov.cols, i),
                                  !.pos  = call.start])
    IN  /\ alt.c.ret = call.ret
        /\ alt.c.v = call.v
        /\ alt.p.pos = prov.pos - 1

\* the column about to be read joins the current group (it is the first of
\* the call, or its component prefix is the group's) and names no field
ReadsUnknown ==
    /\ m.mapping.kind = "sparse"
    /\ ReadsColumn
    /\ extractComponents(m.mapping, NextCol, 1).err = "nil"
    /\ LET comps == extractComponents(m.mapping, NextCol, 1).components
       IN  IF call.compositeFieldsAreSet
           THEN ~isNewComponents(call.previousComponents, comps, 1)
           ELSE unmapComponents(m.mapping, call.v,
                                validateAndInspectStruct(call.v), comps, 1).err = "nil"
    /\ UnknownName(NextCol)

\* C6: in a sparse Unmap call, a column of the current group whose trailing
\* component names no declared field raises no error (the loop goes on) and
\* writes no field from its value (the first column of a call sets the
\* component fields from the prefix, whatever its name); and when the call
\* kept another column too, the returned error, the record and the cursor
\* (one less, for the missing column) are those of the call on the stream
\* without that column.
C6_UnknownColumn ==
    /\ [][ReadsUnknown =>
            /\ call'.pc = "loop"
            /\ call.compositeFieldsAreSet => call'.v = call.v
            /\ \A n \in DOMAIN call.v.val :
                  n \notin m.mapping.componentsMap => call'.v.val[n] = call.v.val[n]]_vars
    /\ [](( /\ m.err = "nil"
            /\ m.mapping.kind = "sparse"
            /\ call.pc = "done")
          => \A i \in call.kept :
                (UnknownName(prov.cols[i]) /\ Cardinality(call.kept) >= 2)
                => SameWithout(i))

\* a call kept a column that names a field and one that names none, and
\* succeeded with the field decoded
C6_Witness ==
    /\ m.err = "nil"
    /\ m.mapping.kind = "sparse"
    /\ call.pc = "done"
    /\ call.ret = "nil"
    /\ Cardinality(call.kept) >= 2
    /\ \E i \in call.kept : UnknownName(prov.cols[i])
    /\ call.v.val["Name"] = <<98>>

\* the last mapped record, and the fields of its type by name
LastRec == recs[Len(recs)]

FieldOf(n) == CHOOSE f \in Range(MappedType.fields) : f.name = n

FieldBytes(r, n) == Marshal(r.val[n], FieldOf(n).ctype)

\* the packed components c[1..k], each with its length, bytes and marker
RECURSIVE PackedPrefix(_, _)
PackedPrefix(c, k) ==
    IF k = 0 THEN <<>>
    ELSE PackedPrefix(c, k - 1) \o Uint16Bytes(BLen(c[k])) \o c[k] \o <<eocEquals>>

\* the packed component prefix of record r
PrefixOf(r) == PackedPrefix(ComponentBytes(r), Len(m.mapping.components))

IsColumnField(f) ==
    f.name # m.mapping.key /\ f.name \notin Range(m.mapping.components)

\* the fields that are neither the key nor a component, in declared order
ColumnFields == SelectSeq(MappedType.fields, IsColumnField)

Mapped(kind) ==
    /\ m.err = "nil"
    /\ m.mapping.kind = kind
    /\ recs # <<>>

\* C7: sparse Map returns the marshalled key and exactly one column per
\* field that is neither the key nor a component field, in declared order;
\* the name is the packed component prefix followed by the packed field name
\* when the mapping has component fields, the bare field name otherwise; the
\* value is the marshalled field value.
C7_SparseMapShape ==
    (Mapped("sparse") /\ row.err = "nil") =>
        /\ row.Key = FieldBytes(LastRec, m.mapping.key)
        /\ Len(row.Columns) = Len(ColumnFields)
        /\ \A i \in DOMAIN ColumnFields :
              /\ row.Columns[i].Name =
                    (IF m.mapping.components # <<>>
                     THEN PrefixOf(LastRec)
                          \o Uint16Bytes(BLen(ColumnFields[i].cname))
                          \o ColumnFields[i].cname \o <<eocEquals>>
                     ELSE ColumnFields[i].cname)
              /\ row.Columns[i].Value = FieldBytes(LastRec, ColumnFields[i].name)

\* a Pair (fields A, Id, Name, B; components B, A) was mapped to one column,
\* and a Plain to the bare names of its two fields
C7_Witness ==
    /\ Mapped("sparse")
    /\ \/ /\ m.mapping.si.rtype = "Pair"
          /\ LastRec.val = [A |-> TRUE, Id |-> <<97>>, Name |-> <<97>>, B |-> <<97>>]
          /\ row.Columns = <<Column(<<0, 1, 97, 0, 0, 1, 1, 0, 0, 4, 78, 97, 109, 101, 0>>,
                                    <<97>>)>>
       \/ /\ m.mapping.si.rtype = "Plain"
          /\ Len(row.Columns) = 2
          /\ row.Columns[1].Name = bName

\* C8: compact Map returns exactly one column; its name is the packed
\* component prefix with no trailing field name (empty when there are no
\* component fields), its value the marshalled value field, or the empty
\* byte string when no value field is declared.
C8_CompactMapShape ==
    (Mapped("compact") /\ row.err = "nil") =>
        /\ row.Key = FieldBytes(LastRec, m.mapping.key)
        /\ Len(row.Columns) = 1
        /\ row.Columns[1].Name = PrefixOf(LastRec)
        /\ m.mapping.components = <<>> => row.Columns[1].Name = <<>>
        /\ row.Columns[1].Value =
              (IF "value" \in DOMAIN m.mapping.si.globalTags
               THEN FieldBytes(LastRec, m.mapping.value)
               ELSE <<>>)

\* an Event with a value was mapped
C8_Witness ==
    /\ Mapped("compact")
    /\ m.mapping.si.rtype = "Event"
    /\ row.err = "nil"
    /\ LastRec.val = [Id |-> <<97>>, Kind |-> <<97>>, Val |-> <<97>>]
    /\ row.Columns = <<Column(<<0, 1, 97, 0>>, <<97>>)>>

\* C9: when NextColumn signals EndBeforeLimit to a sparse Unmap call, the
\* call returns nil if it has consumed a column, Done if it has consumed
\* none; the record is left as it is.
C9_EndBeforeLimit ==
    [][(m.mapping.kind = "sparse" /\ ReadsEnd("EndBeforeLimit")) =>
         /\ call'.pc = "done"
         /\ call'.ret = (IF prov.pos > call.start THEN "nil" ELSE "Done")
         /\ call'.v = call.v]_vars

\* a call decoded up to the end of the row and returned nil on
\* EndBeforeLimit; the next one, with nothing left to read, returned Done
C9_Witness ==
    /\ m.err = "nil"
    /\ m.mapping.kind = "sparse"
    /\ prov.end = "EndBeforeLimit"
    /\ Len(hist) = 2
    /\ hist[1].ret = "nil"
    /\ hist[1].kept # {}
    /\ hist[1].pos = Len(prov.cols)
    /\ hist[2].ret = "Done"
    /\ hist[2].ops = <<"Key", "NextColumn">>

\* C10: when NextColumn signals EndAtLimit to a sparse Unmap call, the call
\* returns Done, however many columns it has consumed and decoded.
C10_EndAtLimit ==
    [][(m.mapping.kind = "sparse" /\ ReadsEnd("EndAtLimit")) =>
         (call'.pc = "done" /\ call'.ret = "Done")]_vars

\* a call that decoded two columns of its record returned Done at the limit
C10_Witness ==
    /\ m.err = "nil"
    /\ m.mapping.kind = "sparse"
    /\ prov.end = "EndAtLimit"
    /\ call.pc = "done"
    /\ call.ret = "Done"
    /\ Cardinality(call.kept) = 2
    /\ call.v # FreshRecord(MappedType)

\* the number of times op occurs in the provider operations ops
RECURSIVE Count(_, _)
Count(ops, op) ==
    IF ops = <<>> THEN 0
    ELSE (IF Head(ops) = op THEN 1 ELSE 0) + Count(Tail(ops), op)

\* C11: a compact Unmap call calls NextColumn at most once and Rewind never;
\* a call that succeeds leaves the cursor exactly one column after where it
\* began; and each of Done, EndBeforeLimit and EndAtLimit makes the call
\* return Done.
C11_CompactSingleShot ==
    [][(m.mapping.kind = "compact" /\ call'.pc # "idle") =>
         /\ Count(call'.ops, "NextColumn") <= 1
         /\ Count(call'.ops, "Rewind") = 0
         /\ (call'.pc = "done" /\ call'.ret = "nil") => prov'.pos = call'.start + 1
         /\ (\E e \in Exhaustion : ReadsEnd(e)) =>
               (call'.pc = "done" /\ call'.ret = "Done")]_vars

\* two compact calls on a row of one column: the first decoded the column,
\* the second was told EndBeforeLimit and returned Done
C11_Witness ==
    /\ m.err = "nil"
    /\ m.mapping.kind = "compact"
    /\ Len(prov.cols) = 1
    /\ prov.end = "EndBeforeLimit"
    /\ Len(hist) = 2
    /\ hist[1].ret = "nil"
    /\ hist[1].ops = <<"Key", "NextColumn">>
    /\ hist[1].pos = 1
    /\ hist[2].ret = "Done"
    /\ hist[2].ops = <<"Key", "NextColumn">>

\* C12: when Key() returns an error, sparse and compact Unmap return that
\* error having called nothing but Key(); when NextColumn returns an error
\* that is none of the three exhaustion signals, they return that error, and
\* NextColumn was the call's last provider operation: the cursor stays and
\* Rewind is not called.
C12_ProviderErrors ==
    [][/\ (prov'.keyErr \notin {"nil", "none"} /\ call'.pc # "idle") =>
            /\ call'.pc = "done"
            /\ call'.ret = prov'.keyErr
            /\ call'.ops = <<"Key">>
       /\ (call.pc = "loop" /\ prov.pos >= Len(prov.cols)
                            /\ prov.end \notin Exhaustion) =>
            /\ call'.pc = "done"
            /\ call'.ret = prov.end
            /\ call'.ops = Append(call.ops, "NextColumn")
            /\ Count(call'.ops, "Rewind") = 0
            /\ prov' = prov]_vars

\* a sparse call decoded a column and then returned the provider's error
C12_Witness ==
    /\ m.err = "nil"
    /\ m.mapping.kind = "sparse"
    /\ prov.end = "ErrTransport"
    /\ call.pc = "done"
    /\ call.ret = "ErrTransport"
    /\ call.kept # {}
    /\ call.ops = <<"Key", "NextColumn", "NextColumn">>

\* the tags and the field names of the struct passed to NewMapping
SourceTags == api.source.tags

Declares(n) == \E i \in DOMAIN api.source.fields : api.source.fields[i].name = n

HasTag(t) == t \in DOMAIN SourceTags

\* one of the six faults of C13
IllTagged ==
    \/ ~HasTag("cf")
    \/ ~HasTag("key")
    \/ ~Declares(SourceTags["key"])
    \/ HasTag("cols") /\ \E i \in DOMAIN Split(SourceTags["cols"]) :
                            ~Declares(Split(SourceTags["cols"])[i])
    \/ HasTag("value") /\ ~Declares(SourceTags["value"])
    \/ HasTag("mapping") /\ SourceTags["mapping"] \notin {"sparse", "compact"}

\* C13: NewMapping returns an error and no Mapping when the cf tag or the
\* key tag is missing, when the key, an entry of cols or a present value tag
\* names an undeclared field, or when the mapping tag is present and neither
\* sparse nor compact; otherwise it returns no error and a sparse mapping
\* when the mapping tag is absent or sparse, a compact one when it is
\* compact.
C13_ConstructionValidation ==
    api.op = "NewMapping" =>
        IF IllTagged
        THEN m.err # "nil" /\ m.mapping = NoMapping
        ELSE /\ m.err = "nil"
             /\ m.mapping.kind =
                   (IF HasTag("mapping") /\ SourceTags["mapping"] = "compact"
                    THEN "compact" ELSE "sparse")

\* a struct whose only fault is its mapping tag was refused, and one with the
\* same tags but for mapping "compact" would be accepted
C13_Witness ==
    /\ api.op = "NewMapping"
    /\ SourceTags = [cf |-> "things", key |-> "Id", cols |-> "B,A",
                     value |-> "Val", mapping |-> "bogus"]
    /\ m.err = "ErrMappingType"
    /\ NewMapping([api.source EXCEPT !.tags["mapping"] = "compact"]).mapping.kind
          = "compact"

\* C14: MarshalComponent returns an out-of-range error and no bytes for
\* every position >= len(componentFields), and for 0 <= position <
\* len(componentFields) what the type codec of the component field at that
\* position (counted from 0) gives for the value.
C14_MarshalComponentBounds ==
    api.op = "MarshalComponent" =>
        /\ api.position >= Len(m.mapping.components) =>
              api.out = [err |-> "ErrOutOfRange", b |-> <<>>]
        /\ (0 <= api.position /\ api.position < Len(m.mapping.components)) =>
              /\ api.out.err = "nil"
              /\ api.out.b =
                    Marshal(api.component,
                            FieldOf(m.mapping.components[api.position + 1]).ctype)

\* the second component of a Pair (the bool A, at position 1) was marshalled,
\* and the position after it is out of range
C14_Witness ==
    /\ api.op = "MarshalComponent"
    /\ m.mapping.si.rtype = "Pair"
    /\ api.position = 1
    /\ api.component = TRUE
    /\ api.out = [err |-> "nil", b |-> <<1>>]
    /\ MarshalComponent(m.mapping, TRUE, 2).err = "ErrOutOfRange"

\* the Mapping as NewMapping built it
Built == NewMapping(MappedType)

\* what caller i gets when its calls run alone, one after the other
Alone(i) ==
    LET r == Map(Built.mapping, par[i].rec)
    IN  [row   |-> r,
         unmap |-> Unmap(Built.mapping, FreshRecord(MappedType), ProviderOf(r))]

\* C15: whatever Cf, MarshalKey, MarshalComponent, Map and Unmap calls have
\* been made on a Mapping, and however the steps of two callers' calls have
\* interleaved, the Mapping's descriptor (column family, key field, component
\* fields in order, component set, value field) is the one NewMapping built,
\* and each caller's Row, returned error, decoded record and cursor are those
\* of its calls run alone.
C15_MappingImmutable ==
    /\ m = Built
    /\ \A i \in Callers :
          /\ par[i].pc # "start" => par[i].row = Alone(i).row
          /\ par[i].pc = "done" =>
                /\ par[i].call = Alone(i).unmap.c
                /\ par[i].prov = Alone(i).unmap.p

\* a Pair has been decoded for one caller while the other caller, with
\* another Pair, is between two columns of its Unmap call, and Cf was called
\* last
C15_Witness ==
    /\ m.mapping.si.rtype = "Pair"
    /\ par[1].rec # par[2].rec
    /\ par[1].pc = "unmap"
    /\ par[1].call.kept # {}
    /\ par[2].pc = "done"
    /\ par[2].call.ret = "nil"
    /\ par[2].call.v = par[2].rec
    /\ api.op = "Cf"

\* the columns of the row passed to RowToMap that the scheme names
InScheme == {i \in DOMAIN api.r.Columns : api.r.Columns[i].Name \in DOMAIN api.scheme}

\* the value of each column the scheme names decodes as the scheme's type
ValuesDecode ==
    \A i \in InScheme :
       Unmarshal(api.r.Columns[i].Value, api.scheme[api.r.Columns[i].Name]).err = "nil"

\* C16: RowToMap returns an error for a nil row; for a row that is not nil
\* and whose values under the scheme's names decode, it returns no error and
\* a map whose keys are exactly the column names of the row that are keys of
\* the scheme: a column the scheme does not name gives no entry and no
\* error, whatever its value.
C16_RowToMapFiltering ==
    api.op = "RowToMap" =>
        /\ api.r.nil => api.out.err # "nil"
        /\ (~api.r.nil /\ ValuesDecode) =>
              /\ api.out.err = "nil"
              /\ DOMAIN api.out.ret = {api.r.Columns[i].Name : i \in InScheme}

\* a row with a column the scheme names and one it does not gave a map of
\* one entry
C16_Witness ==
    /\ api.op = "RowToMap"
    /\ DOMAIN api.scheme = {bName, bAge}
    /\ api.r.Columns = <<Column(bZzz, <<98>>), Column(bAge, BigEndian(30, 8))>>
    /\ api.out.err = "nil"
    /\ DOMAIN api.out.ret = {bAge}
    /\ api.out.ret[bAge] = 30

\* the component prefix of a column of a mapping with component fields: its
\* components but the trailing field name
PrefixOfColumn(col) ==
    LET comps == unpackComposite(col.Name).comps
    IN  SubSeq(comps, 1, Len(comps) - 1)

HasRewind(ops) == Count(ops, "Rewind") >= 1

\* of two successive calls on the provider of which the first ended with a
\* Rewind, the second began with a NextColumn that returned a column, and
\* read another column before any Rewind of its own
RewindsApart ==
    \A i \in 1..(Len(hist) - 1) :
       HasRewind(hist[i].ops) =>
          /\ hist[i + 1].start < Len(prov.cols)
          /\ Len(hist[i + 1].ops) >= 2
          /\ hist[i + 1].ops[2] = "NextColumn"
          /\ HasRewind(hist[i + 1].ops) => Len(hist[i + 1].ops) >= 4

\* C17: a sparse Unmap call calls Rewind at most once, as its last provider
\* operation, right after a NextColumn that returned a column which is not
\* the first column the call read and whose component prefix differs from
\* that of the column before it (the current group's); the two together
\* leave the cursor where it was; and between the Rewinds of two calls on
\* one provider a NextColumn returns a column.
C17_RewindOneStep ==
    [][(m.mapping.kind = "sparse" /\ call'.pc # "idle") =>
         /\ Count(call'.ops, "Rewind") <= 1
         /\ HasRewind(call'.ops) =>
               /\ call'.pc = "done"
               /\ Len(call'.ops) >= 4
               /\ call'.ops[Len(call'.ops)] = "Rewind"
               /\ call'.ops[Len(call'.ops) - 1] = "NextColumn"
         /\ (HasRewind(call'.ops) /\ ~HasRewind(call.ops)) =>
               /\ ReadsColumn
               /\ call'.ops = call.ops \o <<"NextColumn", "Rewind">>
               /\ prov.pos > call.start
               /\ m.mapping.components # <<>>
               /\ PrefixOfColumn(NextCol) # PrefixOfColumn(prov.cols[prov.pos])
               /\ prov'.pos = prov.pos
         /\ RewindsApart']_vars

\* two groups on one provider: the first call read the first column of the
\* second group and un-consumed it, and the second call read it again and
\* kept it
C17_Witness ==
    /\ m.err = "nil"
    /\ m.mapping.kind = "sparse"
    /\ Len(hist) = 2
    /\ hist[1].ops = <<"Key", "NextColumn", "NextColumn", "Rewind">>
    /\ hist[1].start = 0
    /\ hist[1].pos = 1
    /\ hist[2].start = 1
    /\ hist[2].ops[2] = "NextColumn"
    /\ 2 \in hist[2].kept

\* the column about to be read has the mapping's shape, is not the first
\* column of the call, and its component prefix is not that of the column
\* before it
ReadsNewPrefix ==
    /\ ReadsColumn
    /\ prov.pos > call.start
    /\ m.mapping.components # <<>>
    /\ unpackComposite(NextCol.Name).ok
    /\ Len(unpackComposite(NextCol.Name).comps) = Len(m.mapping.components) + 1
    /\ PrefixOfColumn(NextCol) # PrefixOfColumn(prov.cols[prov.pos])

\* C18: a sparse Unmap call returns nil if and only if it consumed and kept
\* at least one column and its loop ended on EndBeforeLimit or on a column
\* with another component prefix; and when NextColumn returns Done the call
\* returns Done, with the record as the columns decoded so far left it.
C18_SparseSuccess ==
    [][(m.mapping.kind = "sparse" /\ call'.pc = "done" /\ call' # call) =>
         /\ (call'.ret = "nil") <=>
               /\ call.pc = "loop"
               /\ call.kept # {}
               /\ ReadsEnd("EndBeforeLimit") \/ ReadsNewPrefix
         /\ (call.pc = "loop" /\ ReadsEnd("Done")) =>
               (call'.ret = "Done" /\ call'.v = call.v)]_vars

\* a call decoded both columns of a User and returned Done when the provider
\* said Done
C18_Witness ==
    /\ m.err = "nil"
    /\ m.mapping.si.rtype = "User"
    /\ prov.end = "Done"
    /\ Len(recs) = 1
    /\ call.pc = "done"
    /\ call.ret = "Done"
    /\ call.kept = {1, 2}
    /\ call.v = recs[1]
    /\ call.v.val["Name"] = <<97>>

\* the calls of hist that succeeded
Successes == {i \in DOMAIN hist : hist[i].ret = "nil"}

\* the provider serves the columns of mapped records whose components fit
\* their length prefix, and ends with an exhaustion signal
ServesWellFormed ==
    /\ recs # <<>>
    /\ \A i \in DOMAIN recs : ComponentsFit(recs[i])
    /\ prov.end \in Exhaustion

\* of the calls made on the provider so far at most N succeeded, so that
\* call N + 1 at the latest did not; over well-formed columns that call
\* returned Done
EndsByCallNPlusOne ==
    (m.err = "nil" /\ m.mapping.kind = "sparse" /\ prov # NoProvider) =>
        /\ Cardinality(Successes) <= Len(prov.cols)
        /\ Len(hist) <= Len(prov.cols) + 1
        /\ \A i \in DOMAIN hist :
              (ServesWellFormed /\ hist[i].ret # "nil") => hist[i].ret = "Done"

\* C19: a sparse Unmap call that returns nil leaves the cursor at least one
\* column after where the call began; a step of a call returns or moves the
\* cursor one column on, which the N columns allow N times, and a call that
\* has begun does return; and of the calls on a provider of N columns at
\* most N succeed, call N + 1 at the latest does not.
C19_Progress ==
    /\ [][/\ (m.mapping.kind = "sparse" /\ call'.pc = "done"
                                       /\ call'.ret = "nil") =>
               prov'.pos >= call'.start + 1
          /\ (m.mapping.kind = "sparse" /\ call.pc = "loop" /\ call' # call) =>
               \/ call'.pc = "done"
               \/ prov'.pos = prov.pos + 1 /\ prov'.pos <= Len(prov.cols)]_vars
    /\ []EndsByCallNPlusOne
    /\ (m.mapping.kind = "sparse" /\ call.pc = "loop") ~> (call.pc = "done")

\* two columns of two groups: two calls succeeded and the third returned
\* Done
C19_Witness ==
    /\ m.err = "nil"
    /\ m.mapping.kind = "sparse"
    /\ Len(prov.cols) = 2
    /\ Len(hist) = 3
    /\ hist[1].ret = "nil"
    /\ hist[1].pos = 1
    /\ hist[2].ret = "nil"
    /\ hist[2].pos = 2
    /\ hist[3].ret = "Done"

====
